---- MODULE Spec2Model ----
(***************************************************************************)
(* Half-edge kernel of poly2tri-c (refine/edge.c): the life cycle of a     *)
(* mirrored pair of P2trEdge records (new, ref, unref, remove, free) and   *)
(* the turning-angle predicate.  The heap is modelled record by record;    *)
(* operations that call out (unref -> free -> remove -> mesh hook) run as  *)
(* frames of an explicit call stack, one step per statement group.         *)
(*                                                                         *)
(* Point, Triangle and Mesh are collaborators whose code is not part of    *)
(* edge.c; they are modelled from their documented interface.              *)
(***************************************************************************)
EXTENDS Integers, Sequences, FiniteSets, TLC

\* ------------------------------------------------------------------ bounds
\* Highest reference count a holder drives an edge to.
MaxRef == 1

\* Edges created in the runs whose listeners call back.
ReentrantPairs == 2

\* ------------------------------------------------------------- the universe
NULL == "NULL"

\* pi in the unit used for angles (one unit = pi/4)
G_PI == 4

Points == {"a", "b", "c"}
\* coordinates (P2trPoint.c) of the three points
Coord == [a |-> <<0, 0>>, b |-> <<2, 0>>, c |-> <<2, 2>>]

\* The edges a builder may create: (start, end) of the forward direction.
CreateInputs == <<[start |-> "a", end |-> "b"],
                  [start |-> "b", end |-> "c"],
                  [start |-> "c", end |-> "a"]>>
Pairs == 1 .. Len(CreateInputs)
\* The constrained flags the builder may pass for each of them.
ConstrainedInputs == <<BOOLEAN, {FALSE}, {TRUE}>>
\* The two records g_slice_new returns for the k-th edge: their addresses.
SelfRec == <<"e1", "e2", "e3">>
MirrorRec == <<"m1", "m2", "m3">>
Edges == {SelfRec[k] : k \in Pairs} \cup {MirrorRec[k] : k \in Pairs}
\* The record allocated together with e (an allocation fact, not the mirror field).
Mate(e) == IF \E k \in Pairs : SelfRec[k] = e
             THEN MirrorRec[CHOOSE k \in Pairs : SelfRec[k] = e]
             ELSE SelfRec[CHOOSE k \in Pairs : MirrorRec[k] = e]

TriIds == {"t1", "t2"}
Meshes == {"M"}

VARIABLES
  edge,       \* the P2trEdge records: edge[e] = the fields of record e
  allocated,  \* the records g_slice_new has handed out
  released,   \* released[e] = how many times g_slice_free was applied to e
  point,      \* the P2trPoint objects: reference count, incident edges, mesh
  tris,       \* tris[t] = the half-edges bounding triangle t ({} = no such triangle)
  notified,   \* notified[e] = how often the mesh hook was invoked for direction e
  stack,      \* the call stack of the operation in progress (<<>> between operations)
  ret         \* what the last angle_between call produced

vars == <<edge, allocated, released, point, tris, notified, stack, ret>>

heap == <<edge, allocated, released, point, tris, notified>>

\* ----------------------------------------------------------------- geometry
\* atan2 (y, x) in units of pi/4, for the directions between the model's points
\* (axis-parallel or diagonal); the range is (-G_PI, G_PI].
Atan2(y, x) ==
  CASE x > 0 /\ y = 0 -> 0
    [] x > 0 /\ y > 0 -> 1
    [] x = 0 /\ y > 0 -> 2
    [] x < 0 /\ y > 0 -> 3
    [] x < 0 /\ y = 0 -> 4
    [] x < 0 /\ y < 0 -> -3
    [] x = 0 /\ y < 0 -> -2
    [] x > 0 /\ y < 0 -> -1
    [] OTHER -> 0

\* ------------------------------------------------------------------- points
PointRef(P, p) == [P EXCEPT ![p].refcount = @ + 1]

PointUnref(P, p) == [P EXCEPT ![p].refcount = @ - 1]

PointInsertEdge(P, p, e) == [P EXCEPT ![p].edges = @ \cup {e}]

PointRemoveEdge(P, p, e) == [P EXCEPT ![p].edges = @ \ {e}]

PointGetMesh(p) == point[p].mesh

\* -------------------------------------------------------------------- edges
FreshEdge == [end |-> NULL, mirror |-> NULL, constrained |-> FALSE,
              delaunay |-> FALSE, refcount |-> 0, tri |-> NULL, angle |-> 0]

\* (variant: the constrained argument is not stored)
EdgeInitDropsConstrained(start, end, constrained, mirror) ==
  [angle       |-> Atan2(Coord[end][2] - Coord[start][2],
                         Coord[end][1] - Coord[start][1]),
   constrained |-> FALSE,
   delaunay    |-> FALSE,
   end         |-> end,
   mirror      |-> mirror,
   refcount    |-> 0,
   tri         |-> NULL]

\* p2tr_edge_init: the fields of a record just initialised
EdgeInit(start, end, constrained, mirror) ==
  [angle       |-> Atan2(Coord[end][2] - Coord[start][2],
                         Coord[end][1] - Coord[start][1]),
   constrained |-> constrained,
   delaunay    |-> FALSE,
   end         |-> end,
   mirror      |-> mirror,
   refcount    |-> 0,
   tri         |-> NULL]

\* P2TR_EDGE_START(e) == e->mirror->end
EdgeStart(e) == edge[edge[e].mirror].end

\* p2tr_edge_is_removed
IsRemoved(e) == edge[e].end = NULL

\* p2tr_edge_get_mesh
GetMesh(e) == IF edge[e].end # NULL THEN PointGetMesh(edge[e].end) ELSE NULL

\* A caller may pass e: the record and its twin are allocated and not yet given
\* back to the allocator.
Usable(e) ==
  /\ e \in allocated
  /\ released[e] = 0
  /\ released[Mate(e)] = 0

\* The value a read of e->mirror yields.  Once the record was given back to the
\* allocator the read is a use after free: the field may still be intact, or the
\* allocator's free-list link has overwritten it (GSlice clears the second word of
\* a freed chunk), in which case the pointer read is NULL.
ReadMirror(e) == IF released[e] = 0 THEN {edge[e].mirror} ELSE {edge[e].mirror, NULL}

\* ------------------------------------------------------------ the call stack
Idle == stack = <<>> /\ ret.kind # "abort"

Top == stack[Len(stack)]

Pop(s) == SubSeq(s, 1, Len(s) - 1)

SetPc(s, pc) == [s EXCEPT ![Len(s)].pc = pc]

Running(fn, pc) == stack # <<>> /\ Top.fn = fn /\ Top.pc = pc

Frame(fn, pc, self) ==
  [fn |-> fn, pc |-> pc, self |-> self, mesh |-> NULL, start |-> NULL, end |-> NULL]

\* ------------------------------------------------------------ initial state
\* No edge exists yet.  Each point is held by its creator (one reference) and
\* the points belong to one mesh, or to none.
Init ==
  /\ edge = [e \in Edges |-> FreshEdge]
  /\ allocated = {}
  /\ released = [e \in Edges |-> 0]
  /\ \E m \in Meshes \cup {NULL} :
       point = [p \in Points |-> [refcount |-> 1, edges |-> {}, mesh |-> m]]
  /\ tris = [t \in TriIds |-> {}]
  /\ notified = [e \in Edges \cup {NULL} |-> 0]
  /\ stack = <<>>
  /\ ret = [kind |-> "none", val |-> 0]

\* ------------------------------------------------------------ p2tr_edge_new
\* (variant: line 35 passes mirror, not self, as the mirror's twin)
EdgeNewMirrorToItself(k, constrained) ==
  LET self   == SelfRec[k]
      mirror == MirrorRec[k]
      start  == CreateInputs[k].start
      end    == CreateInputs[k].end
  IN  /\ Idle
      /\ self \notin allocated
      /\ allocated' = allocated \cup {self, mirror}
      /\ edge' = [edge EXCEPT
                    ![self]   = [EdgeInit(start, end, constrained, mirror)
                                   EXCEPT !.refcount = @ + 1],
                    ![mirror] = EdgeInit(end, start, constrained, mirror)]
      /\ point' = PointInsertEdge(
                    PointInsertEdge(PointRef(PointRef(point, start), end),
                                    start, self),
                    end, mirror)
      /\ UNCHANGED <<released, tris, notified, stack, ret>>

\* (variant: line 38 is missing, the end point is not referenced)
EdgeNewRefsStartOnly(k, constrained) ==
  LET self   == SelfRec[k]
      mirror == MirrorRec[k]
      start  == CreateInputs[k].start
      end    == CreateInputs[k].end
  IN  /\ Idle
      /\ self \notin allocated
      /\ allocated' = allocated \cup {self, mirror}
      /\ edge' = [edge EXCEPT
                    ![self]   = [EdgeInit(start, end, constrained, mirror)
                                   EXCEPT !.refcount = @ + 1],
                    ![mirror] = EdgeInit(end, start, constrained, self)]
      /\ point' = PointInsertEdge(
                    PointInsertEdge(PointRef(point, start), start, self),
                    end, mirror)
      /\ UNCHANGED <<released, tris, notified, stack, ret>>

\* The k-th edge of CreateInputs is created, once; g_slice_new hands out two
\* records never handed out before.  Lines 34-43 call nothing that calls back.
EdgeNew(k, constrained) ==
  LET self   == SelfRec[k]
      mirror == MirrorRec[k]
      start  == CreateInputs[k].start
      end    == CreateInputs[k].end
  IN  /\ Idle
      /\ self \notin allocated
      /\ allocated' = allocated \cup {self, mirror}
      /\ edge' = [edge EXCEPT
                    ![self]   = [EdgeInit(start, end, constrained, mirror)
                                   EXCEPT !.refcount = @ + 1],
                    ![mirror] = EdgeInit(end, start, constrained, self)]
      /\ point' = PointInsertEdge(
                    PointInsertEdge(PointRef(PointRef(point, start), end),
                                    start, self),
                    end, mirror)
      /\ UNCHANGED <<released, tris, notified, stack, ret>>

\* ------------------------------------------------------------ p2tr_edge_ref
\* DoRef, DoUnref and DoRemove are the calls themselves; EdgeRef, EdgeUnref and
\* EdgeRemove are a client making them between operations.
\* (variant: the mirror's count is raised as well)
DoRefBumpsMirror(e) ==
  /\ Usable(e)
  /\ edge[e].refcount < MaxRef
  /\ edge' = [edge EXCEPT ![e].refcount = @ + 1,
                          ![edge[e].mirror].refcount = @ + 1]
  /\ UNCHANGED <<allocated, released, point, tris, notified, stack, ret>>

DoRef(e) ==
  /\ Usable(e)
  /\ edge[e].refcount < MaxRef
  /\ edge' = [edge EXCEPT ![e].refcount = @ + 1]
  /\ UNCHANGED <<allocated, released, point, tris, notified, stack, ret>>

EdgeRef(e) == Idle /\ DoRef(e)

\* ---------------------------------------------------------- p2tr_edge_remove
\* (variant: line 78 takes self's own end point as the start)
RemoveFrameStartIsEnd(self) ==
  [fn |-> "remove", pc |-> "tri1", self |-> self,
   mesh |-> GetMesh(self), start |-> edge[self].end, end |-> edge[self].end]

\* The frame of a p2tr_edge_remove (self) that passed the guard of lines 73-74,
\* with its locals mesh, start and end resolved (lines 76-79).
RemoveFrame(self) ==
  [fn |-> "remove", pc |-> "tri1", self |-> self,
   mesh |-> GetMesh(self), start |-> EdgeStart(self), end |-> edge[self].end]

\* (variant: the guard of lines 73-74 is missing)
CallRemoveUnguarded(s, self) == Append(s, RemoveFrame(self))

\* The stack s after a call of p2tr_edge_remove (self): an edge already removed
\* returns at once.
CallRemove(s, self) ==
  IF edge[self].end = NULL THEN s ELSE Append(s, RemoveFrame(self))

DoRemove(e) ==
  /\ Usable(e)
  /\ stack' = CallRemove(stack, e)
  /\ UNCHANGED <<edge, allocated, released, point, tris, notified, ret>>

EdgeRemove(e) == Idle /\ DoRemove(e)

\* p2tr_triangle_remove: the triangle lets go of its three half-edges and is gone.
TriangleRemove(E, t) ==
  [e \in Edges |-> IF e \in tris[t] THEN [E[e] EXCEPT !.tri = NULL] ELSE E[e]]

\* (variant: lines 81-82 are missing, the edge's own triangle is left alone)
RemoveTri1Skipped ==
  /\ Running("remove", "tri1")
  /\ stack' = SetPc(stack, "tri2")
  /\ UNCHANGED <<edge, tris, allocated, released, point, notified, ret>>

\* lines 81-82
RemoveTri1 ==
  /\ Running("remove", "tri1")
  /\ LET t == edge[Top.self].tri
     IN  IF t # NULL
           THEN /\ edge' = TriangleRemove(edge, t)
                /\ tris' = [tris EXCEPT ![t] = {}]
           ELSE UNCHANGED <<edge, tris>>
  /\ stack' = SetPc(stack, "tri2")
  /\ UNCHANGED <<allocated, released, point, notified, ret>>

\* (variant: lines 83-84 are missing, the mirror's triangle is left alone)
RemoveTri2Skipped ==
  /\ Running("remove", "tri2")
  /\ stack' = SetPc(stack, "detach")
  /\ UNCHANGED <<edge, tris, allocated, released, point, notified, ret>>

\* lines 83-84
RemoveTri2 ==
  /\ Running("remove", "tri2")
  /\ LET t == edge[edge[Top.self].mirror].tri
     IN  IF t # NULL
           THEN /\ edge' = TriangleRemove(edge, t)
                /\ tris' = [tris EXCEPT ![t] = {}]
           ELSE UNCHANGED <<edge, tris>>
  /\ stack' = SetPc(stack, "detach")
  /\ UNCHANGED <<allocated, released, point, notified, ret>>

\* (variant: line 87 is missing, the mirror stays in the end point's set)
RemoveDetachSelfOnly ==
  /\ Running("remove", "detach")
  /\ point' = PointRemoveEdge(point, Top.start, Top.self)
  /\ stack' = SetPc(stack, "tombstone")
  /\ UNCHANGED <<edge, allocated, released, tris, notified, ret>>

\* lines 86-87
RemoveDetach ==
  /\ Running("remove", "detach")
  /\ point' = PointRemoveEdge(PointRemoveEdge(point, Top.start, Top.self),
                              Top.end, edge[Top.self].mirror)
  /\ stack' = SetPc(stack, "tombstone")
  /\ UNCHANGED <<edge, allocated, released, tris, notified, ret>>

\* (variant: line 90 is missing, the mirror keeps its end)
RemoveTombstoneSelfOnly ==
  /\ Running("remove", "tombstone")
  /\ edge' = [edge EXCEPT ![Top.self].end = NULL]
  /\ stack' = SetPc(stack, "unref")
  /\ UNCHANGED <<allocated, released, point, tris, notified, ret>>

\* lines 89-90
RemoveTombstone ==
  /\ Running("remove", "tombstone")
  /\ edge' = [edge EXCEPT ![Top.self].end = NULL,
                          ![edge[Top.self].mirror].end = NULL]
  /\ stack' = SetPc(stack, "unref")
  /\ UNCHANGED <<allocated, released, point, tris, notified, ret>>

\* (variant: lines 92-93 have not run when the mesh is notified)
RemoveUnrefPointsDeferred ==
  /\ Running("remove", "unref")
  /\ stack' = SetPc(stack, "notify1")
  /\ UNCHANGED <<edge, allocated, released, point, tris, notified, ret>>

\* lines 92-93
RemoveUnrefPoints ==
  /\ Running("remove", "unref")
  /\ point' = PointUnref(PointUnref(point, Top.start), Top.end)
  /\ stack' = SetPc(stack, "notify1")
  /\ UNCHANGED <<edge, allocated, released, tris, notified, ret>>

\* p2tr_mesh_on_edge_removed (mesh, e): the mesh records the notification and
\* hands it to its listeners; the hook's frame stays on the stack while they run.
MeshOnEdgeRemoved(s, e) == Append(s, Frame("hook", "listen", e))

\* lines 95-97
RemoveNotify1 ==
  /\ Running("remove", "notify1")
  /\ IF Top.mesh # NULL
       THEN /\ notified' = [notified EXCEPT ![Top.self] = @ + 1]
            /\ stack' = MeshOnEdgeRemoved(SetPc(stack, "notify2"), Top.self)
       ELSE /\ stack' = Pop(stack)
            /\ UNCHANGED notified
  /\ UNCHANGED <<edge, allocated, released, point, tris, ret>>

\* (variant: line 98 passes self a second time)
RemoveNotify2SelfAgain ==
  /\ Running("remove", "notify2")
  /\ notified' = [notified EXCEPT ![Top.self] = @ + 1]
  /\ stack' = MeshOnEdgeRemoved(SetPc(stack, "return"), Top.self)
  /\ UNCHANGED <<edge, allocated, released, point, tris, ret>>

\* line 98
RemoveNotify2 ==
  /\ Running("remove", "notify2")
  /\ \E m \in ReadMirror(Top.self) :
       /\ notified' = [notified EXCEPT ![m] = @ + 1]
       /\ stack' = MeshOnEdgeRemoved(SetPc(stack, "return"), m)
  /\ UNCHANGED <<edge, allocated, released, point, tris, ret>>

\* lines 99-100
RemoveReturn ==
  /\ Running("remove", "return")
  /\ stack' = Pop(stack)
  /\ UNCHANGED <<heap, ret>>

\* The mesh hook returns to the p2tr_edge_remove that invoked it.
HookReturn ==
  /\ Running("hook", "listen")
  /\ stack' = Pop(stack)
  /\ UNCHANGED <<heap, ret>>

\* ------------------------------------------------------------ p2tr_edge_free
\* line 105
FreeRemove ==
  /\ Running("free", "remove")
  /\ stack' = CallRemove(SetPc(stack, "release_self"), Top.self)
  /\ UNCHANGED <<heap, ret>>

\* line 106
FreeReleaseSelf ==
  /\ Running("free", "release_self")
  /\ released' = [released EXCEPT ![Top.self] = @ + 1]
  /\ stack' = SetPc(stack, "release_mirror")
  /\ UNCHANGED <<edge, allocated, point, tris, notified, ret>>

\* line 107: self->mirror is read from the record line 106 released;
\* g_slice_free of a NULL pointer does nothing.
FreeReleaseMirror ==
  /\ Running("free", "release_mirror")
  /\ \E m \in ReadMirror(Top.self) :
       released' = IF m = NULL THEN released
                   ELSE [released EXCEPT ![m] = @ + 1]
  /\ stack' = Pop(stack)
  /\ UNCHANGED <<edge, allocated, point, tris, notified, ret>>

\* ----------------------------------------------------------- p2tr_edge_unref
\* (variant: the mirror's count is not consulted)
UnrefFreesOwnCountOnly(refcount, mirrorRefcount) == refcount = 0

\* line 57: the test made on the two counts after the decrement
UnrefFrees(refcount, mirrorRefcount) == refcount = 0 /\ mirrorRefcount = 0

\* A holder gives back only a reference it holds: the count is positive.
DoUnref(e) ==
  /\ Usable(e)
  /\ edge[e].refcount > 0
  /\ edge' = [edge EXCEPT ![e].refcount = @ - 1]
  /\ stack' = IF UnrefFrees(edge'[e].refcount, edge'[edge'[e].mirror].refcount)
                THEN Append(stack, Frame("free", "remove", e))
                ELSE stack
  /\ UNCHANGED <<allocated, released, point, tris, notified, ret>>

EdgeUnref(e) == Idle /\ DoUnref(e)

\* -------------------------------------------------------- p2tr_triangle_new
\* Three half-edges close a face: each ends where the next one starts.
ClosesFace(S) ==
  \E x, y, z \in S :
    /\ S = {x, y, z}
    /\ x # y /\ y # z /\ x # z
    /\ edge[x].end = EdgeStart(y)
    /\ edge[y].end = EdgeStart(z)
    /\ edge[z].end = EdgeStart(x)

\* The triangulation builder binds a new triangle t to three free half-edges.
TriangleNew(t, S) ==
  /\ Idle
  /\ tris[t] = {}
  /\ t = "t1" \/ tris["t1"] # {}
  /\ \A e \in S : Usable(e) /\ edge[e].end # NULL /\ edge[e].tri = NULL
  /\ ClosesFace(S)
  /\ tris' = [tris EXCEPT ![t] = S]
  /\ edge' = [e \in Edges |-> IF e \in S THEN [edge[e] EXCEPT !.tri = t]
                                        ELSE edge[e]]
  /\ UNCHANGED <<allocated, released, point, notified, stack, ret>>

\* --------------------------------------------------- p2tr_edge_angle_between
\* p2tr_exception_programmatic: fatal, the call does not return.
ExceptionProgrammatic == [kind |-> "abort", val |-> 0]

\* (variant: e1's end is compared with e2's end, not with e2's start)
NotConsecutiveComparesEnds(e1, e2) == edge[e1].end # edge[e2].end

\* lines 178-180: the precondition on the two edges
NotConsecutive(e1, e2) == edge[e1].end # EdgeStart(e2)

\* lines 182-186, on the two direction angles
AngleBetween(a1, a2) ==
  LET result == G_PI - a1 + a2
  IN  IF result > 2 * G_PI THEN result - 2 * G_PI ELSE result

EdgeAngleBetween(e1, e2) ==
  /\ Idle
  /\ Usable(e1)
  /\ Usable(e2)
  /\ ret' = IF NotConsecutive(e1, e2)
              THEN ExceptionProgrammatic
              ELSE [kind |-> "value",
                    val  |-> AngleBetween(edge[e1].angle, edge[e2].angle)]
  /\ UNCHANGED <<heap, stack>>

\* ------------------------------------------------------- geometric queries
\* A non-negative real held by its square: Sqrt(n) is the root of n.
Sqrt(n) == [sq |-> n]

\* p2tr_vector2_center: the point half way between a and b
Vector2Center(a, b) == <<(a[1] + b[1]) \div 2, (a[2] + b[2]) \div 2>>

\* p2tr_vector2_sub: a - b
Vector2Sub(a, b) == <<a[1] - b[1], a[2] - b[2]>>

\* p2tr_vector2_norm: the Euclidean length of v
Vector2Norm(v) == Sqrt(v[1] * v[1] + v[2] * v[2])

\* p2tr_math_length_sq2: the squared distance between a and b
LengthSq2(a, b) ==
  (a[1] - b[1]) * (a[1] - b[1]) + (a[2] - b[2]) * (a[2] - b[2])

\* (variant: line 117 subtracts the start point, not the centre)
GetDiametralCircleFromStart(e) ==
  LET center == Vector2Center(Coord[edge[e].end], Coord[EdgeStart(e)])
      radius == Vector2Sub(Coord[edge[e].end], Coord[EdgeStart(e)])
  IN  [center |-> center, radius |-> Vector2Norm(radius)]

\* lines 116-119: the circle p2tr_edge_get_diametral_circle writes for e
GetDiametralCircle(e) ==
  LET center == Vector2Center(Coord[edge[e].end], Coord[EdgeStart(e)])
      radius == Vector2Sub(Coord[edge[e].end], center)
  IN  [center |-> center, radius |-> Vector2Norm(radius)]

\* p2tr_edge_get_length_squared
GetLengthSquared(e) == LengthSq2(Coord[edge[e].end], Coord[EdgeStart(e)])

\* p2tr_edge_get_length
GetLength(e) == Sqrt(GetLengthSquared(e))

\* The geometric queries dereference both end points: callers pass an edge
\* that is not removed.
EdgeGetDiametralCircle(e) ==
  /\ Idle
  /\ Usable(e)
  /\ edge[e].end # NULL
  /\ ret' = [kind |-> "circle", circle |-> GetDiametralCircle(e),
             length |-> GetLength(e), length_squared |-> GetLengthSquared(e)]
  /\ UNCHANGED <<heap, stack>>

\* ------------------------------------------------------------ mesh listeners
\* While the hook runs, a listener of the mesh may call back into the edge API
\* for the direction it is being told about.
Listening == Running("hook", "listen") /\ Top.self # NULL

ListenerRef == Listening /\ DoRef(Top.self)

ListenerUnref == Listening /\ DoUnref(Top.self)

ListenerRemove == Listening /\ DoRemove(Top.self)

\* ------------------------------------------------------------------- system
RemoveStep ==
  \/ RemoveTri1
  \/ RemoveTri2
  \/ RemoveDetach
  \/ RemoveTombstone
  \/ RemoveUnrefPoints
  \/ RemoveNotify1
  \/ RemoveNotify2
  \/ RemoveReturn
  \/ HookReturn

FreeStep ==
  \/ FreeRemove
  \/ FreeReleaseSelf
  \/ FreeReleaseMirror

\* The edge API driven by its callers; mesh listeners only take note.
Next ==
  \/ \E k \in Pairs : \E c \in ConstrainedInputs[k] : EdgeNew(k, c)
  \/ \E e \in Edges : EdgeRef(e)
  \/ \E e \in Edges : EdgeUnref(e)
  \/ \E e \in Edges : EdgeRemove(e)
  \/ \E t \in TriIds, S \in SUBSET Edges : TriangleNew(t, S)
  \/ RemoveStep
  \/ FreeStep

Spec == Init /\ [][Next]_vars

\* The same, with listeners that call ref, unref and remove from inside the hook.
NextReentrant ==
  \/ \E k \in 1 .. ReentrantPairs : \E c \in ConstrainedInputs[k] : EdgeNew(k, c)
  \/ \E e \in Edges : EdgeRef(e)
  \/ \E e \in Edges : EdgeUnref(e)
  \/ \E e \in Edges : EdgeRemove(e)
  \/ RemoveStep
  \/ FreeStep
  \/ ListenerRef
  \/ ListenerUnref
  \/ ListenerRemove

SpecReentrant == Init /\ [][NextReentrant]_vars

\* Construction, removal and the geometric queries.
NextAngle ==
  \/ \E k \in Pairs : \E c \in ConstrainedInputs[k] : EdgeNew(k, c)
  \/ \E e \in Edges : EdgeRemove(e)
  \/ RemoveStep
  \/ \E e1, e2 \in Edges : EdgeAngleBetween(e1, e2)
  \/ \E e \in Edges : EdgeGetDiametralCircle(e)

SpecAngle == Init /\ [][NextAngle]_vars

\* ==================================================================== claims
\* A p2tr_edge_remove frame returns to its caller in this step.
RemoveReturns == stack # <<>> /\ Top.fn = "remove" /\ stack' = Pop(stack)

\* The mesh the points belong to (NULL: they belong to none).
TheMesh == point["a"].mesh

\* C1: a record is given back to the allocator only inside a p2tr_edge_free
\* reached from p2tr_edge_unref, at a moment when its own reference count and
\* the count of the record allocated with it are both zero; no released record
\* has a nonzero count, and no step of a p2tr_edge_remove called by a client
\* releases anything.
C1_ReclaimOnlyAtZero ==
  /\ [](\A e \in Edges : released[e] > 0 =>
          edge[e].refcount = 0 /\ edge[Mate(e)].refcount = 0)
  /\ [][\A e \in Edges : released'[e] # released[e] =>
          /\ stack # <<>> /\ stack[1].fn = "free"
          /\ edge[e].refcount = 0
          /\ edge[Mate(e)].refcount = 0]_vars
  /\ [][(stack # <<>> /\ stack[1].fn = "remove") => released' = released]_vars

C1_Witness ==
  \E e \in Edges : released[e] = 1 /\ released[Mate(e)] = 1 /\ stack = <<>>

\* C2: when p2tr_edge_remove returns, having been called on an edge e not yet
\* removed with start a and end b, e and e.mirror both have a cleared end, a's
\* incident set does not contain e and b's does not contain e.mirror.
C2_RemovePostcondition ==
  [][RemoveReturns =>
       LET e == Top.self
           m == edge[e].mirror
       IN  /\ edge'[e].end = NULL
           /\ edge'[m].end = NULL
           /\ m = Mate(e)
           /\ Top.start \in Points /\ Top.end \in Points
           /\ e \notin point'[Top.start].edges
           /\ m \notin point'[Top.end].edges]_vars

C2_Witness ==
  /\ stack = <<>>
  /\ \E e \in allocated :
       /\ released[e] = 0
       /\ IsRemoved(e) /\ IsRemoved(Mate(e))
       /\ edge[e].refcount > 0
       /\ \A p \in Points : point[p].edges \cap {e, Mate(e)} = {}

\* C3: a p2tr_edge_remove called on an edge whose end is already cleared (by a
\* client, on either direction, or by p2tr_edge_free) changes no record, no
\* point, no triangle, no count and notifies nobody: the call returns at once.
C3_RemoveIdempotent ==
  /\ [][\A e \in Edges : (EdgeRemove(e) /\ edge[e].end = NULL) => UNCHANGED vars]_vars
  /\ [][(Running("free", "remove") /\ edge[Top.self].end = NULL) =>
          /\ UNCHANGED heap
          /\ stack' = SetPc(stack, "release_self")]_vars

C3_Witness ==
  /\ stack = <<>>
  /\ \E e \in allocated : Usable(e) /\ IsRemoved(e) /\ notified[e] = 1

\* C4: the mesh hook is invoked at most once for a direction, only for a
\* direction that has been removed, and, where the points belong to a mesh,
\* exactly once for every removed direction once the removing operation is over;
\* repeated removes and the remove inside p2tr_edge_free add no invocation.
C4_NotifiedOncePerDirection ==
  /\ notified[NULL] = 0
  /\ \A e \in Edges :
       /\ notified[e] <= 1
       /\ notified[e] = 1 => e \in allocated /\ edge[e].end = NULL
       /\ (stack = <<>> /\ e \in allocated /\ edge[e].end = NULL /\ TheMesh # NULL)
            => notified[e] = 1

C4_Witness ==
  /\ stack = <<>>
  /\ \E e \in Edges :
       notified[e] = 1 /\ notified[Mate(e)] = 1 /\ released[e] = 1

\* C5: p2tr_edge_remove cascades to triangles.  The triangle bound to the edge
\* when the removal starts, and the one bound to its mirror, are removed by the
\* steps of lines 81-84: the triangle is gone and none of its three half-edges
\* keeps a bound-triangle reference; when the removal returns, the edge and its
\* mirror have no bound triangle and no triangle is bounded by either.
C5_RemoveCascadesToTriangles ==
  /\ [][(Running("remove", "tri1") /\ edge[Top.self].tri # NULL) =>
          LET t == edge[Top.self].tri
          IN  /\ Top.self \in tris[t]
              /\ tris'[t] = {}
              /\ \A x \in tris[t] : edge'[x].tri = NULL]_vars
  /\ [][(Running("remove", "tri2") /\ edge[Mate(Top.self)].tri # NULL) =>
          LET t == edge[Mate(Top.self)].tri
          IN  /\ Mate(Top.self) \in tris[t]
              /\ tris'[t] = {}
              /\ \A x \in tris[t] : edge'[x].tri = NULL]_vars
  /\ [][RemoveReturns =>
          /\ edge'[Top.self].tri = NULL
          /\ edge'[Mate(Top.self)].tri = NULL
          /\ \A t \in TriIds : tris'[t] \cap {Top.self, Mate(Top.self)} = {}
          /\ \A x \in Edges : edge'[x].tri # NULL => x \in tris'[edge'[x].tri]]_vars

\* the removal has cascaded to the edge's triangle; the mirror's is next
C5_Witness ==
  /\ Running("remove", "tri2")
  /\ edge[Top.self].tri = NULL
  /\ edge[Mate(Top.self)].tri # NULL
  /\ \E t \in TriIds : tris[t] = {}
  /\ \E t \in TriIds : Mate(Top.self) \in tris[t]

\* C6: as long as neither record of a pair has been released, removed or not,
\* each direction's mirror is a record other than itself, the one allocated with
\* it, and the mirror of its mirror is the direction itself.
C6_MirrorInvolution ==
  \A e \in allocated :
    (released[e] = 0 /\ released[Mate(e)] = 0) =>
      /\ edge[e].mirror \in allocated
      /\ edge[e].mirror # e
      /\ edge[e].mirror = Mate(e)
      /\ edge[edge[e].mirror].mirror = e

C6_Witness ==
  /\ stack = <<>>
  /\ \E e \in allocated :
       /\ released[e] = 0 /\ released[Mate(e)] = 0
       /\ IsRemoved(e)
       /\ edge[edge[e].mirror].mirror = e

\* C7: p2tr_edge_new (a, b, constrained) yields a forward edge e with e.end = b
\* and e.mirror.end = a; a's incident set gains exactly e, b's exactly e.mirror;
\* the reference counts of a and b grow by one each and no other point changes;
\* e's count is 1 and e.mirror's 0; both directions carry the given constrained
\* flag, a false Delaunay flag and no bound triangle.
C7_CreatePostcondition ==
  [][\A k \in Pairs, c \in BOOLEAN :
       EdgeNew(k, c) =>
         LET a == CreateInputs[k].start
             b == CreateInputs[k].end
             e == SelfRec[k]
             m == edge'[e].mirror
         IN  /\ edge'[e].end = b
             /\ m \in Edges \ {e}
             /\ edge'[m].end = a
             /\ e \notin point[a].edges
             /\ point'[a].edges = point[a].edges \cup {e}
             /\ m \notin point[b].edges
             /\ point'[b].edges = point[b].edges \cup {m}
             /\ point'[a].refcount = point[a].refcount + 1
             /\ point'[b].refcount = point[b].refcount + 1
             /\ \A p \in Points \ {a, b} : point'[p] = point[p]
             /\ edge'[e].refcount = 1
             /\ edge'[m].refcount = 0
             /\ edge'[e].constrained = c
             /\ edge'[m].constrained = c
             /\ ~edge'[e].delaunay /\ ~edge'[m].delaunay
             /\ edge'[e].tri = NULL /\ edge'[m].tri = NULL]_vars

C7_Witness ==
  \E k \in Pairs :
    /\ SelfRec[k] \in allocated
    /\ edge[SelfRec[k]].constrained
    /\ edge[SelfRec[k]].end = CreateInputs[k].end
    /\ edge[SelfRec[k]].refcount = 1
    /\ SelfRec[k] \in point[CreateInputs[k].start].edges

\* C8: deallocation is safely re-entrant: whatever a mesh listener calls from
\* inside the hook that runs during p2tr_edge_free, no record is given back to
\* the allocator more than once.
C8_ReleasedAtMostOnce == \A e \in Edges : released[e] <= 1

\* C9: p2tr_edge_angle_between (e1, e2) with e1.end # e2.start fails fatally:
\* it yields no angle, changes no edge, point, triangle or mesh state, and
\* nothing runs after it.
C9_AngleBetweenPrecondition ==
  /\ [][\A e1, e2 \in Edges :
          (EdgeAngleBetween(e1, e2) /\ edge[e1].end # edge[Mate(e2)].end) =>
            /\ ret'.kind = "abort"
            /\ UNCHANGED <<heap, stack>>]_vars
  /\ [][ret.kind # "abort"]_vars

C9_Witness == ret.kind = "abort" /\ allocated # {}

\* the turning angle brought into (-pi, pi]
NormalizedAngle(w) ==
  IF w > G_PI THEN w - 2 * G_PI
  ELSE IF w <= 0 - G_PI THEN w + 2 * G_PI
  ELSE w

\* C10: for consecutive edges p2tr_edge_angle_between returns
\* pi - angle(e1) + angle(e2) normalized into (-pi, pi]; for e1 of angle 0 and
\* e2 of angle pi/2 that is -pi/2.
C10_AngleBetweenNormalized ==
  [][\A e1, e2 \in Edges :
       (EdgeAngleBetween(e1, e2) /\ edge[e1].end = edge[Mate(e2)].end) =>
         /\ ret'.kind = "value"
         /\ ret'.val = NormalizedAngle(G_PI - edge[e1].angle + edge[e2].angle)
         /\ ret'.val > 0 - G_PI
         /\ ret'.val <= G_PI]_vars

\* C11: for every edge that is not removed, p2tr_edge_get_diametral_circle
\* yields the circle centred at the midpoint of the two end points whose radius
\* is half the edge's length (4 * radius^2 = length squared, and the length is
\* the root of the length squared); for end points (0,0) and (2,0) the centre
\* is (1,0) and the radius 1; the edge and its mirror get the same circle.
C11_DiametralCircle ==
  [][\A e \in Edges :
       EdgeGetDiametralCircle(e) =>
         LET s == Coord[edge[Mate(e)].end]
             t == Coord[edge[e].end]
             c == ret'.circle
         IN  /\ 2 * c.center[1] = s[1] + t[1]
             /\ 2 * c.center[2] = s[2] + t[2]
             /\ 4 * c.radius.sq = ret'.length_squared
             /\ ret'.length_squared = (t[1] - s[1]) * (t[1] - s[1])
                                        + (t[2] - s[2]) * (t[2] - s[2])
             /\ ret'.length.sq = ret'.length_squared
             /\ ({s, t} = {<<0, 0>>, <<2, 0>>}) =>
                  c.center = <<1, 0>> /\ c.radius = Sqrt(1)
             /\ c = GetDiametralCircle(Mate(e))]_vars

\* the circle of the mirror of the edge from (0,0) to (2,0) was asked for
C11_Witness ==
  /\ ret.kind = "circle"
  /\ ret.circle = [center |-> <<1, 0>>, radius |-> Sqrt(1)]
  /\ ret.length_squared = 4
  /\ \E e \in allocated : e = MirrorRec[1] /\ ~IsRemoved(e)

\* The k-th edge is installed: created and not removed.
Installed(k) == SelfRec[k] \in allocated /\ edge[SelfRec[k]].end # NULL

\* The installed edges that have p as an end point.
PairsAt(p) ==
  {k \in Pairs : Installed(k) /\ p \in {CreateInputs[k].start, CreateInputs[k].end}}

\* Neither e nor its mirror is in any point's incident set.
Detached(e) == \A p \in Points : point[p].edges \cap {e, Mate(e)} = {}

\* C12: the steps of one p2tr_edge_remove keep their order.  The step that
\* clears an end finds no triangle bound to the edge or its mirror, both
\* directions already detached, and no end point released yet; the step that
\* releases the end points finds both ends cleared and both directions detached,
\* and nobody notified; the mesh (resolved before any change) is notified only
\* when both ends are cleared and both end points released, so that a listener
\* sees both directions removed.
C12_RemoveOrder ==
  /\ [][\A e \in Edges :
          (edge[e].end # NULL /\ edge'[e].end = NULL) =>
            /\ Running("remove", "tombstone")
            /\ e \in {Top.self, Mate(Top.self)}
            /\ edge[e].tri = NULL /\ edge[Mate(e)].tri = NULL
            /\ \A t \in TriIds : tris[t] \cap {e, Mate(e)} = {}
            /\ Detached(e)
            /\ edge'[Mate(e)].end = NULL
            /\ \A p \in Points : point[p].refcount = 1 + Cardinality(PairsAt(p))
            /\ point' = point]_vars
  /\ [][\A p \in Points :
          point'[p].refcount < point[p].refcount =>
            /\ Running("remove", "unref")
            /\ p \in {Top.start, Top.end}
            /\ IsRemoved(Top.self) /\ IsRemoved(Mate(Top.self))
            /\ Detached(Top.self)
            /\ notified[Top.self] = 0 /\ notified[Mate(Top.self)] = 0
            /\ notified' = notified]_vars
  /\ [][\A e \in Edges \cup {NULL} :
          notified'[e] # notified[e] =>
            /\ e # NULL
            /\ stack # <<>> /\ Top.fn = "remove"
            /\ e \in {Top.self, Mate(Top.self)}
            /\ Top.mesh # NULL /\ Top.mesh = TheMesh
            /\ IsRemoved(e) /\ IsRemoved(Mate(e))
            /\ Detached(e)
            /\ \A p \in Points : point[p].refcount = 1 + Cardinality(PairsAt(p))]_vars
  /\ [](Running("hook", "listen") =>
          /\ Top.self # NULL
          /\ IsRemoved(Top.self) /\ IsRemoved(Mate(Top.self)))

\* the listener is told of the second direction of an edge that shared an end
\* point with an edge still installed
C12_Witness ==
  /\ Running("hook", "listen")
  /\ Top.self = MirrorRec[1]
  /\ notified[SelfRec[1]] = 1
  /\ Installed(2)
  /\ point["b"].refcount = 2
  /\ point["a"].refcount = 1

\* C13: reclaim comes after removal and takes the pair as a whole.  A record
\* is given back to the allocator only by p2tr_edge_free, when both directions
\* have a cleared end, are detached from every point and the end points have
\* been released (once); and once the p2tr_edge_free is over, the record and
\* the one allocated with it have both been given back, never one alone.
C13_ReclaimAfterRemovalAsPair ==
  /\ [][\A e \in Edges :
          released'[e] # released[e] =>
            /\ stack # <<>> /\ Top.fn = "free"
            /\ IsRemoved(e) /\ IsRemoved(Mate(e))
            /\ Detached(e)
            /\ \A p \in Points : point[p].refcount = 1 + Cardinality(PairsAt(p))]_vars
  /\ [](stack = <<>> => \A e \in Edges : released[e] = released[Mate(e)])

\* C14: no leak on the last release.  A p2tr_edge_unref that brings a
\* direction's count to zero while the mirror's count is not zero releases
\* nothing and the pair survives; one that brings it to zero while the mirror's
\* count is zero reclaims the pair within that same call: once it is over, both
\* records of a pair whose two counts are zero have been given back.
C14_NoLeakOnLastRelease ==
  /\ [][\A e \in Edges :
          (EdgeUnref(e) /\ edge[Mate(e)].refcount > 0) =>
            /\ stack' = <<>>
            /\ released' = released
            /\ edge'[Mate(e)] = edge[Mate(e)]]_vars
  /\ [][\A e \in Edges :
          (EdgeUnref(e) /\ edge[e].refcount = 1 /\ edge[Mate(e)].refcount = 0) =>
            stack' = <<Frame("free", "remove", e)>>]_vars
  /\ [](\A e \in allocated :
          (stack = <<>> /\ edge[e].refcount = 0 /\ edge[Mate(e)].refcount = 0) =>
            released[e] >= 1 /\ released[Mate(e)] >= 1)

\* C15: between operations no point's incident set holds a removed edge (each
\* member is a created half-edge, not removed, that starts at the point), and
\* every half-edge that is not removed is in the incident set of its start
\* point, the end point of its mirror.
C15_IncidentSetsMatchInstalled ==
  stack = <<>> =>
    /\ \A p \in Points : \A e \in point[p].edges :
         /\ e \in allocated
         /\ ~IsRemoved(e)
         /\ edge[edge[e].mirror].end = p
    /\ \A e \in allocated :
         ~IsRemoved(e) => e \in point[edge[edge[e].mirror].end].edges

\* one edge removed at a point where another is still installed
C15_Witness ==
  /\ stack = <<>>
  /\ SelfRec[1] \in allocated /\ IsRemoved(SelfRec[1]) /\ IsRemoved(MirrorRec[1])
  /\ Installed(2)
  /\ point["b"].edges = {SelfRec[2]}
  /\ point["a"].edges = {}

\* C16: between operations, a triangle that exists is bounded by three created
\* half-edges none of which is removed, each bound to it; and no removed
\* half-edge has a bound-triangle reference.
C16_TrianglesOnInstalledEdges ==
  stack = <<>> =>
    /\ \A t \in TriIds :
         tris[t] # {} =>
           /\ Cardinality(tris[t]) = 3
           /\ \A e \in tris[t] :
                e \in allocated /\ ~IsRemoved(e) /\ edge[e].tri = t
    /\ \A e \in allocated : IsRemoved(e) => edge[e].tri = NULL

\* both faces of the three edges exist, one per orientation
C16_Witness ==
  /\ stack = <<>>
  /\ tris["t1"] # {} /\ tris["t2"] # {}
  /\ \A k \in Pairs : Installed(k) /\ edge[SelfRec[k]].tri # edge[MirrorRec[k]].tri

\* C17: end point ownership is conserved.  Besides the reference of its
\* creator, a point carries one reference per installed edge that has it as an
\* end point: taken by p2tr_edge_new, given back once by the p2tr_edge_remove
\* that removes the edge (called by a client on either direction, or by
\* p2tr_edge_free), and by no other step.  So a point's count is never below
\* the number of installed edges at it, a point with an installed edge is not
\* destroyed, and a create followed by a remove leaves the counts as they were.
C17_EndpointOwnership ==
  /\ [](\A p \in Points :
          /\ point[p].refcount >= 1 + Cardinality(PairsAt(p))
          /\ PairsAt(p) # {} => point[p].refcount > 0
          /\ stack = <<>> => point[p].refcount = 1 + Cardinality(PairsAt(p)))
  /\ [][\A p \in Points :
          point'[p].refcount > point[p].refcount =>
            /\ point'[p].refcount = point[p].refcount + 1
            /\ \E k \in Pairs :
                 /\ ~Installed(k) /\ Installed(k)'
                 /\ p \in {CreateInputs[k].start, CreateInputs[k].end}]_vars
  /\ [][\A p \in Points :
          point'[p].refcount < point[p].refcount =>
            /\ point'[p].refcount = point[p].refcount - 1
            /\ Running("remove", "unref")
            /\ p \in {Top.start, Top.end}
            /\ point'[Top.start].refcount = point[Top.start].refcount - 1
            /\ point'[Top.end].refcount = point[Top.end].refcount - 1]_vars

\* three edges were created and the one from c to a removed again
C17_Witness ==
  /\ stack = <<>>
  /\ Installed(1) /\ Installed(2)
  /\ SelfRec[3] \in allocated /\ IsRemoved(SelfRec[3])
  /\ point["a"].refcount = 2
  /\ point["b"].refcount = 3
  /\ point["c"].refcount = 2

\* Every field of record e but its reference count is left as it is.
SameButRefcount(e) ==
  [edge'[e] EXCEPT !.refcount = 0] = [edge[e] EXCEPT !.refcount = 0]

\* C18: frame effects.  p2tr_edge_ref, and a p2tr_edge_unref that does not
\* reclaim, change the reference count of the direction they are called on, by
\* +1 and -1, and nothing else: not the mirror's count, no end, no bound
\* triangle, no incident set, no point count.  After construction no call of
\* ref, unref or remove changes a constrained flag, a direction angle or a
\* mirror reference, and p2tr_edge_remove changes no reference count: a count
\* changes only in the ref or unref called on that very direction.
C18_FrameEffects ==
  /\ [][\A e \in Edges :
          EdgeRef(e) =>
            /\ edge'[e].refcount = edge[e].refcount + 1
            /\ SameButRefcount(e)
            /\ \A x \in Edges \ {e} : edge'[x] = edge[x]
            /\ UNCHANGED <<allocated, released, point, tris, notified, stack>>]_vars
  /\ [][\A e \in Edges :
          (EdgeUnref(e) /\ stack' = <<>>) =>
            /\ edge'[e].refcount = edge[e].refcount - 1
            /\ SameButRefcount(e)
            /\ \A x \in Edges \ {e} : edge'[x] = edge[x]
            /\ UNCHANGED <<allocated, released, point, tris, notified>>]_vars
  /\ [][\A e \in allocated :
          /\ edge'[e].constrained = edge[e].constrained
          /\ edge'[e].angle = edge[e].angle
          /\ edge'[e].mirror = edge[e].mirror
          /\ edge'[e].refcount # edge[e].refcount => EdgeRef(e) \/ EdgeUnref(e)]_vars
  /\ [][(stack # <<>> \/ \E e \in Edges : EdgeRemove(e)) =>
          \A e \in Edges : edge'[e].refcount = edge[e].refcount]_vars

\* a constrained edge was removed, its mirror referenced and its own reference
\* given back: the pair survives on the mirror's count
C18_Witness ==
  /\ stack = <<>>
  /\ SelfRec[3] \in allocated
  /\ IsRemoved(SelfRec[3])
  /\ edge[SelfRec[3]].refcount = 0
  /\ edge[MirrorRec[3]].refcount = 1
  /\ released[SelfRec[3]] = 0 /\ released[MirrorRec[3]] = 0
  /\ edge[SelfRec[3]].constrained /\ edge[MirrorRec[3]].constrained
  /\ edge[SelfRec[3]].mirror = MirrorRec[3]

\* The part of the state p2tr_edge_remove works on, as one value.
Heap == [edge |-> edge, point |-> point, tris |-> tris, notified |-> notified]

\* lines 81-84, for direction x: its triangle, if any, is removed from h
TriEffect(h, x) ==
  LET t == h.edge[x].tri
  IN  IF t = NULL THEN h
      ELSE [h EXCEPT
              !.edge = [e \in Edges |-> IF e \in h.tris[t]
                                          THEN [h.edge[e] EXCEPT !.tri = NULL]
                                          ELSE h.edge[e]],
              !.tris = [h.tris EXCEPT ![t] = {}]]

\* lines 86-87
DetachEffect(h, f) ==
  [h EXCEPT !.point = PointRemoveEdge(PointRemoveEdge(h.point, f.start, f.self),
                                      f.end, h.edge[f.self].mirror)]

\* lines 89-90
TombstoneEffect(h, f) ==
  [h EXCEPT !.edge = [h.edge EXCEPT ![f.self].end = NULL,
                                    ![h.edge[f.self].mirror].end = NULL]]

\* lines 92-93
UnrefEffect(h, f) ==
  [h EXCEPT !.point = PointUnref(PointUnref(h.point, f.start), f.end)]

\* lines 95-98, for direction x
NotifyEffect(h, f, x) ==
  IF f.mesh = NULL THEN h ELSE [h EXCEPT !.notified[x] = @ + 1]

\* The position of a statement group of p2tr_edge_remove in the function.
PcRank(pc) ==
  CASE pc = "tri1" -> 1 [] pc = "tri2" -> 2 [] pc = "detach" -> 3
    [] pc = "tombstone" -> 4 [] pc = "unref" -> 5 [] pc = "notify1" -> 6
    [] pc = "notify2" -> 7 [] pc = "return" -> 8

\* The heap the p2tr_edge_remove of frame f leaves when it runs from f.pc to its
\* return on heap h, its listeners only taking note.
Finish(f, h) ==
  LET r  == PcRank(f.pc)
      h1 == IF r <= 1 THEN TriEffect(h, f.self) ELSE h
      h2 == IF r <= 2 THEN TriEffect(h1, h1.edge[f.self].mirror) ELSE h1
      h3 == IF r <= 3 THEN DetachEffect(h2, f) ELSE h2
      h4 == IF r <= 4 THEN TombstoneEffect(h3, f) ELSE h3
      h5 == IF r <= 5 THEN UnrefEffect(h4, f) ELSE h4
      h6 == IF r <= 6 THEN NotifyEffect(h5, f, f.self) ELSE h5
      h7 == IF r <= 7 THEN NotifyEffect(h6, f, h6.edge[f.self].mirror) ELSE h6
  IN  h7

\* The heap a call of p2tr_edge_remove (e) made now leaves.
RemoveOutcome(e) ==
  IF edge[e].end = NULL THEN Heap ELSE Finish(RemoveFrame(e), Heap)

\* A p2tr_edge_remove is in progress.
Removing == \E i \in 1 .. Len(stack) : stack[i].fn = "remove"

\* The heap the p2tr_edge_remove in progress, if any, leaves.
Pending ==
  IF Removing
    THEN Finish(stack[CHOOSE i \in 1 .. Len(stack) : stack[i].fn = "remove"], Heap)
    ELSE Heap

\* C19: removal is symmetric in the two directions.  The steps a
\* p2tr_edge_remove takes lead to the outcome computed when it is called
\* (RemoveOutcome), and for an installed edge e that outcome is the same for e
\* and for e.mirror: both ends cleared, the same incident sets, point counts and
\* triangles, and the same notifications (one for each direction, to the same
\* mesh) whatever their order.
C19_RemoveSymmetric ==
  /\ [][\A e \in Edges : EdgeRemove(e) => Pending' = RemoveOutcome(e)]_vars
  /\ [][Removing => Pending' = Pending]_vars
  /\ [](\A e \in allocated :
          (stack = <<>> /\ Usable(e) /\ ~IsRemoved(e)) =>
            LET m == edge[e].mirror
                o == RemoveOutcome(e)
            IN  /\ o = RemoveOutcome(m)
                /\ RemoveFrame(e).mesh = RemoveFrame(m).mesh
                /\ o.edge[e].end = NULL /\ o.edge[m].end = NULL
                /\ o.edge[e].tri = NULL /\ o.edge[m].tri = NULL
                /\ \A x \in {e, m} :
                     o.notified[x] = notified[x]
                                       + (IF TheMesh = NULL THEN 0 ELSE 1)
                /\ \A x \in Edges \ {e, m} : o.notified[x] = notified[x])

\* one edge was removed, each direction notified once, and another installed
\* edge can be removed through either direction
C19_Witness ==
  /\ stack = <<>>
  /\ TheMesh # NULL
  /\ notified[SelfRec[2]] = 1 /\ notified[MirrorRec[2]] = 1
  /\ edge[SelfRec[2]].refcount = 1 /\ released[SelfRec[2]] = 0
  /\ Installed(1) /\ Installed(3)
  /\ Usable(SelfRec[1]) /\ Usable(MirrorRec[1])

\* The records whose fields the next step of the operation in progress reads
\* or writes.  (p2tr_edge_remove: line 81 reads self->tri, lines 83 and 87
\* self->mirror, lines 89-90 write both ends, line 98 reads self->mirror;
\* p2tr_edge_free: line 105 reads self->end in the guard of the remove it
\* calls, line 107 reads self->mirror.)
Accessed ==
  IF stack = <<>> THEN {}
  ELSE LET f == Top
       IN  CASE f.fn = "remove" /\ f.pc = "tri1" ->
                  {f.self} \cup (IF edge[f.self].tri = NULL THEN {}
                                 ELSE tris[edge[f.self].tri])
             [] f.fn = "remove" /\ f.pc = "tri2" ->
                  {f.self, edge[f.self].mirror}
                    \cup (IF edge[edge[f.self].mirror].tri = NULL THEN {}
                          ELSE tris[edge[edge[f.self].mirror].tri])
             [] f.fn = "remove" /\ f.pc = "detach" -> {f.self}
             [] f.fn = "remove" /\ f.pc = "tombstone" -> {f.self, edge[f.self].mirror}
             [] f.fn = "remove" /\ f.pc = "notify2" -> {f.self}
             [] f.fn = "free" /\ f.pc = "remove" -> {f.self}
             [] f.fn = "free" /\ f.pc = "release_mirror" -> {f.self}
             [] OTHER -> {}

\* C20: no step reads or writes a field of a record that has been given back
\* to the allocator: p2tr_edge_free finds the mirror to release without reading
\* the record it has released, and while a p2tr_edge_remove (with its
\* notifications) runs inside p2tr_edge_free neither record has been released.
C20_NoAccessAfterRelease ==
  /\ \A e \in Accessed : e = NULL \/ released[e] = 0
  /\ Removing => \A i \in 1 .. Len(stack) :
                    stack[i].fn = "remove" =>
                      released[stack[i].self] = 0 /\ released[Mate(stack[i].self)] = 0
====
